---- MODULE Spec2Model ----
(***************************************************************************)
(* Model of homedns/handlers.py: the per-request dispatch cycle            *)
(* (BaseRequestHandler.handle), the access filter (get_denied_types), the  *)
(* TCP and UDP framers (get_data / send_data) and the TCP and UDP          *)
(* forwarders (forward_roots).                                             *)
(*                                                                         *)
(* Byte strings are sequences of integers in 0..255.  An optional value    *)
(* is a record [some, val].  Every dispatch cycle is one record of cyc;    *)
(* the two configuration lists are shared by all cycles.                   *)
(***************************************************************************)
EXTENDS Integers, Sequences, FiniteSets, TLC

VARIABLES
    cyc,              \* cycle id -> the state of that handler instance
    client_denylist,  \* server.dns_config.client_denylist
    roots             \* server.dns_config.roots

vars == <<cyc, client_denylist, roots>>

----------------------------------------------------------------------------
(* Bounds of the model                                                     *)

MaxLen == 4        \* longest byte string read from a requester socket
MaxRoots == 2      \* longest upstream target list
MaxRules == 3      \* longest deny-rule list explored for the access filter

(* Program constants                                                       *)

RecvSize == 8192       \* recv(8192)
DefaultPort == 53      \* if port is None: port = 53
MaxU16 == 65535        \* largest value struct.pack(">H", ...) accepts

----------------------------------------------------------------------------
(* Values                                                                  *)

Byte == {0, 1, 2, 32}          \* the byte values the model draws from
Whitespace == {9, 10, 11, 12, 13, 32}   \* what bytes.strip() removes

RECURSIVE SeqsUpTo(_, _)
SeqsUpTo(S, n) ==
    IF n = 0 THEN {<<>>}
    ELSE LET shorter == SeqsUpTo(S, n - 1)
         IN shorter \cup {Append(q, x) : q \in {r \in shorter : Len(r) = n - 1}, x \in S}

ByteStrings == SeqsUpTo(Byte, MaxLen)

NoData == [some |-> FALSE, val |-> <<>>]     \* Python None
Some(b) == [some |-> TRUE, val |-> b]

NoPort == [some |-> FALSE, val |-> 0]         \* a target whose port is None
Port(p) == [some |-> TRUE, val |-> p]

Min(a, b) == IF a < b THEN a ELSE b

----------------------------------------------------------------------------
(* Pure functions of the framers                                           *)

RECURSIVE lstrip(_)
lstrip(b) == IF b # <<>> /\ Head(b) \in Whitespace THEN lstrip(Tail(b)) ELSE b

RECURSIVE rstrip(_)
rstrip(b) ==
    IF b # <<>> /\ b[Len(b)] \in Whitespace
    THEN rstrip(SubSeq(b, 1, Len(b) - 1))
    ELSE b

\* bytes.strip(): whitespace is removed from both ends
strip(b) == rstrip(lstrip(b))

\* socket.recv(8192): at most RecvSize bytes of what is pending
recv(pending) == SubSeq(pending, 1, Min(Len(pending), RecvSize))

\* struct.pack(">H", n): two bytes, most significant first
pack_H(n) == <<(n \div 256) % 256, n % 256>>

\* struct.unpack(">H", b)[0] for a two-byte b
unpack_H(b) == b[1] * 256 + b[2]

Ok(v) == [ok |-> TRUE, val |-> v, err |-> "none"]
Raise(e) == [ok |-> FALSE, val |-> <<>>, err |-> e]

----------------------------------------------------------------------------
(* Transport framers                                                       *)

\* TCP_get_data that only rejects a declared length larger than the payload
TCP_get_data_lax(pending) ==
    LET data == strip(recv(pending))
        prefix == SubSeq(data, 1, Min(2, Len(data)))
    IN  IF Len(prefix) < 2 THEN Raise("struct.error")
        ELSE LET sz == unpack_H(prefix)
             IN  IF sz > Len(data) - 2 THEN Raise("Too big TCP packet")
                 ELSE Ok(SubSeq(data, 3, Len(data)))

\* TCP_get_data with the two messages exchanged
TCP_get_data_swapped(pending) ==
    LET data == strip(recv(pending))
        prefix == SubSeq(data, 1, Min(2, Len(data)))
    IN  IF Len(prefix) < 2 THEN Raise("struct.error")
        ELSE LET sz == unpack_H(prefix)
             IN  IF sz < Len(data) - 2 THEN Raise("Too big TCP packet")
                 ELSE IF sz > Len(data) - 2 THEN Raise("Wrong size of TCP packet")
                 ELSE Ok(SubSeq(data, 3, Len(data)))

\* TCPRequestHandler.get_data applied to the bytes pending on the stream
TCP_get_data(pending) ==
    LET data == strip(recv(pending))
        prefix == SubSeq(data, 1, Min(2, Len(data)))
    IN  IF Len(prefix) < 2 THEN Raise("struct.error")
        ELSE LET sz == unpack_H(prefix)
             IN  IF sz < Len(data) - 2 THEN Raise("Wrong size of TCP packet")
                 ELSE IF sz > Len(data) - 2 THEN Raise("Too big TCP packet")
                 ELSE Ok(SubSeq(data, 3, Len(data)))

\* UDPRequestHandler.get_data applied to the received datagram
UDP_get_data(datagram) == Ok(strip(datagram))

\* TCP_send_data with the length prefix least significant byte first
TCP_send_data_le(data) ==
    IF Len(data) > MaxU16 THEN Raise("struct.error")
    ELSE Ok(<<Len(data) % 256, (Len(data) \div 256) % 256>> \o data)

\* What TCPRequestHandler.send_data hands to sendall
TCP_send_data(data) ==
    IF Len(data) > MaxU16 THEN Raise("struct.error")
    ELSE Ok(pack_H(Len(data)) \o data)

\* What UDPRequestHandler.send_data hands to sendto
UDP_send_data(data) == Ok(data)

----------------------------------------------------------------------------
(* Access filter                                                           *)

\* get_denied_types that keeps each record type once
RECURSIVE get_denied_types_dedup(_, _)
get_denied_types_dedup(search_ip, denylist) ==
    IF denylist = <<>> THEN <<>>
    ELSE LET rule == denylist[Len(denylist)]
             front == get_denied_types_dedup(search_ip, SubSeq(denylist, 1, Len(denylist) - 1))
         IN  IF rule[1] = search_ip /\ \A j \in 1..Len(front) : front[j] # rule[2]
             THEN Append(front, rule[2])
             ELSE front

RECURSIVE get_denied_types(_, _)
get_denied_types(search_ip, denylist) ==
    IF denylist = <<>> THEN <<>>
    ELSE LET rule == Head(denylist)
             rest == get_denied_types(search_ip, Tail(denylist))
         IN  IF rule[1] = search_ip THEN <<rule[2]>> \o rest ELSE rest

----------------------------------------------------------------------------
(* Configurations and inputs the model draws from                          *)

Transports == {"TCP", "UDP"}

ClientIPs == {"IP_A", "IP_B", "IP_C"}
ClientAddress(ip) == <<ip, 40000>>

RulePool == {<<"IP_A", "A">>, <<"IP_A", "AAAA">>, <<"IP_B", "MX">>}

\* deny-rule lists of the dispatch specification
DenyConfigs == {<<>>, <<<<"IP_A", "A">>, <<"IP_A", "AAAA">>, <<"IP_B", "MX">>>>}

\* the i-th configured upstream target; odd ones leave the port unset
Target(i) == [ip |-> i, port |-> IF i % 2 = 1 THEN NoPort ELSE Port(5300 + i)]

RootConfigs == {[i \in 1..n |-> Target(i)] : n \in 0..MaxRoots}

Replies == {<<>>, <<0, 1, 1>>}

\* what an attempt on one upstream target meets
Outcomes(t) ==
    {[kind |-> k, recv |-> <<>>] :
        k \in IF t = "TCP" THEN {"connfail", "sendfail", "recvfail"}
                           ELSE {"sendfail", "recvfail"}}
    \cup {[kind |-> "reply", recv |-> r] : r \in Replies}

\* dns_response: (status code, optional response bytes), or an exception
LookupResults ==
    {[raises |-> FALSE, code |-> rc, data |-> d] :
        rc \in 0..3, d \in {NoData, Some(<<>>), Some(<<1, 2>>)}}
    \cup {[raises |-> TRUE, code |-> -1, data |-> NoData]}

----------------------------------------------------------------------------
(* One dispatch cycle                                                      *)

NewCycle(t, addr) ==
    [pc |-> "start", transport |-> t, client_address |-> addr,
     raw |-> <<>>, data |-> <<>>, denylist |-> <<>>,
     retcode |-> -1, retdata |-> NoData,
     upstream |-> <<>>, i |-> 0,
     steps |-> <<>>, lookupCalls |-> <<>>, fwdCalls |-> <<>>,
     attempts |-> <<>>, upSent |-> <<>>,
     sendCalls |-> <<>>, sent |-> <<>>,
     state |-> "Running", faultAt |-> "none", err |-> "none"]

\* the cycle returns from handle normally
Finish(s, st) == [s EXCEPT !.pc = "done", !.state = st]

\* except Exception: traceback.print_exc(...)
Caught(s, at, e) ==
    [s EXCEPT !.pc = "done", !.state = "Errored", !.faultAt = at, !.err = e]

\* an exception raised outside the try block leaves handle
Escapes(s, at, e) ==
    [s EXCEPT !.pc = "done", !.state = "Escaped", !.faultAt = at, !.err = e]

\* handle, up to the try: read the configuration, compute the denylist
handle_enter(s, denyl, fault) ==
    IF fault = "config" THEN Escapes(s, "config", "Exception")
    ELSE LET s1 == [s EXCEPT !.steps = Append(@, "filter")]
         IN  IF fault = "filter" THEN Escapes(s1, "filter", "Exception")
             ELSE [s1 EXCEPT !.pc = "get_data",
                             !.denylist = get_denied_types(s.client_address[1], denyl)]

\* handle_get_data that goes on to the lookup when get_data raised
handle_get_data_swallow(s, pending, sockfault) ==
    LET r == IF sockfault THEN Raise("OSError")
             ELSE IF s.transport = "TCP" THEN TCP_get_data(pending)
             ELSE UDP_get_data(pending)
    IN  [s EXCEPT !.steps = Append(@, "decode"),
                  !.raw = IF sockfault THEN @ ELSE pending,
                  !.pc = "lookup", !.data = r.val]

\* data = self.get_data(); sockfault: the read from the socket raises
handle_get_data(s, pending, sockfault) ==
    LET r == IF sockfault THEN Raise("OSError")
             ELSE IF s.transport = "TCP" THEN TCP_get_data(pending)
             ELSE UDP_get_data(pending)
        s1 == [s EXCEPT !.steps = Append(@, "decode"),
                        !.raw = IF sockfault THEN @ ELSE pending]
    IN  IF r.ok THEN [s1 EXCEPT !.pc = "lookup", !.data = r.val]
        ELSE Caught(s1, "framing", r.err)

\* the transport tag handed to dns_response
Proto(t) == IF t = "TCP" THEN "tcp" ELSE "udp"

\* retcode, retdata = dns_response(data, config.db_path, proto, denylist)
handle_lookup(s, res) ==
    LET s1 == [s EXCEPT !.steps = Append(@, "lookup"),
                        !.lookupCalls = Append(@, [data |-> s.data,
                                                   proto |-> Proto(s.transport),
                                                   denylist |-> s.denylist])]
    IN  IF res.raises THEN Caught(s1, "lookup", "Exception")
        ELSE [s1 EXCEPT !.pc = "route", !.retcode = res.code, !.retdata = res.data]

\* self.send_data(retdata)
send_data(s, data, sockOk) ==
    LET r == IF s.transport = "TCP" THEN TCP_send_data(data) ELSE UDP_send_data(data)
    IN  IF ~r.ok THEN Caught(s, "send", r.err)
        ELSE LET msg == [payload |-> r.val, to |-> s.client_address]
                 s1 == [s EXCEPT !.sendCalls = Append(@, msg)]
             IN  IF sockOk THEN Finish([s1 EXCEPT !.sent = Append(@, msg)], "Replied")
                 ELSE Caught(s1, "send", "OSError")

\* loop_head that answers the requester itself when the targets run out
loop_head_fabricate(s, rts) ==
    IF s.i > Len(rts)
    THEN LET msg == [payload |-> <<>>, to |-> s.client_address]
         IN  Finish([s EXCEPT !.sendCalls = Append(@, msg), !.sent = Append(@, msg)],
                    "Forwarded")
    ELSE s

\* the for loop over roots: leave it when the targets are exhausted
loop_head(s, rts) ==
    IF s.i > Len(rts) THEN Finish(s, "Forwarded") ELSE s

\* self.forward_roots(data), up to the first iteration
forward_roots(s, rts, data, env) ==
    loop_head([s EXCEPT !.pc = "forward", !.i = 1, !.upstream = env,
                        !.fwdCalls = Append(@, data)], rts)

\* handle_route that forwards a blocked query as well
handle_route_forward_blocked(s, rts, env, sockOk) ==
    IF s.retcode = 0 THEN
        IF s.retdata.some THEN send_data(s, s.retdata.val, sockOk)
        ELSE Finish(s, "Replied")
    ELSE IF s.retcode \in {1, 2} THEN forward_roots(s, rts, s.data, env)
    ELSE [Finish(s, "Errored") EXCEPT !.err = "undefined error code"]

\* handle_route that forwards the bytes as received instead of the decoded query
handle_route_forward_raw(s, rts, env, sockOk) ==
    IF s.retcode = 0 THEN
        IF s.retdata.some THEN send_data(s, s.retdata.val, sockOk)
        ELSE Finish(s, "Replied")
    ELSE IF s.retcode = 1 THEN forward_roots(s, rts, s.raw, env)
    ELSE IF s.retcode = 2 THEN Finish(s, "Dropped")
    ELSE [Finish(s, "Errored") EXCEPT !.err = "undefined error code"]

\* handle_route that calls send_data whether or not retdata is None
handle_route_send_none(s, rts, env, sockOk) ==
    IF s.retcode = 0 THEN send_data(s, s.retdata.val, sockOk)
    ELSE IF s.retcode = 1 THEN forward_roots(s, rts, s.data, env)
    ELSE IF s.retcode = 2 THEN Finish(s, "Dropped")
    ELSE [Finish(s, "Errored") EXCEPT !.err = "undefined error code"]

\* handle_route that forwards on every status other than 0 and 2
handle_route_unknown_forwards(s, rts, env, sockOk) ==
    IF s.retcode = 0 THEN
        IF s.retdata.some THEN send_data(s, s.retdata.val, sockOk)
        ELSE Finish(s, "Replied")
    ELSE IF s.retcode = 2 THEN Finish(s, "Dropped")
    ELSE forward_roots(s, rts, s.data, env)

\* the branch on retcode
handle_route(s, rts, env, sockOk) ==
    IF s.retcode = 0 THEN
        IF s.retdata.some THEN send_data(s, s.retdata.val, sockOk)
        ELSE Finish(s, "Replied")
    ELSE IF s.retcode = 1 THEN forward_roots(s, rts, s.data, env)
    ELSE IF s.retcode = 2 THEN Finish(s, "Dropped")
    ELSE [Finish(s, "Errored") EXCEPT !.err = "undefined error code"]

----------------------------------------------------------------------------
(* Forwarders                                                              *)

\* the data argument of the running forward_roots call
FwdArg(s) == s.fwdCalls[Len(s.fwdCalls)]

PortOf(tgt) == IF tgt.port.some THEN tgt.port.val ELSE DefaultPort

Attempt(s, rts) == [idx |-> s.i, ip |-> rts[s.i].ip, port |-> PortOf(rts[s.i])]

\* continue that tries a failed target a second time before moving on
continue_retry(s, rts) ==
    IF Len(s.attempts) >= 2 /\ s.attempts[Len(s.attempts) - 1].idx = s.i
    THEN loop_head([s EXCEPT !.i = @ + 1], rts)
    ELSE s

\* continue: the next target, if any
continue(s, rts) == loop_head([s EXCEPT !.i = @ + 1], rts)

\* TCP_relay without the break: the loop goes on after a relayed reply
TCP_relay_nobreak(s, rts, reply, sockOk) ==
    LET msg == [payload |-> reply, to |-> s.client_address]
        s1 == [s EXCEPT !.sendCalls = Append(@, msg)]
    IN  IF sockOk THEN continue([s1 EXCEPT !.sent = Append(@, msg)], rts)
        ELSE Caught(s1, "relay", "OSError")

\* TCP_relay that puts a fresh length prefix in front of the upstream reply
TCP_relay_reframe(s, rts, reply, sockOk) ==
    LET msg == [payload |-> pack_H(Len(reply)) \o reply, to |-> s.client_address]
        s1 == [s EXCEPT !.sendCalls = Append(@, msg)]
    IN  IF sockOk THEN Finish([s1 EXCEPT !.sent = Append(@, msg)], "Forwarded")
        ELSE Caught(s1, "relay", "OSError")

\* self.request.sendall(recv); break
TCP_relay(s, rts, reply, sockOk) ==
    LET msg == [payload |-> reply, to |-> s.client_address]
        s1 == [s EXCEPT !.sendCalls = Append(@, msg)]
    IN  IF sockOk THEN Finish([s1 EXCEPT !.sent = Append(@, msg)], "Forwarded")
        ELSE Caught(s1, "relay", "OSError")

\* one iteration of TCPRequestHandler.forward_roots
TCP_forward_attempt(s, rts, sockOk) ==
    LET out == s.upstream[s.i]
        s1 == [s EXCEPT !.attempts = Append(@, Attempt(s, rts))]
    IN  IF out.kind = "connfail" THEN continue(s1, rts)
        ELSE LET s2 == [s1 EXCEPT !.upSent = Append(@, pack_H(Len(FwdArg(s))) \o FwdArg(s))]
             IN  IF out.kind \in {"sendfail", "recvfail"}
                 THEN Caught(s2, "forward", "OSError")
                 ELSE TCP_relay(s2, rts, recv(out.recv), sockOk)

\* UDP_relay without the break: the loop goes on after a relayed reply
UDP_relay_nobreak(s, rts, reply, sockOk) ==
    LET msg == [payload |-> reply, to |-> s.client_address]
        s1 == [s EXCEPT !.sendCalls = Append(@, msg)]
    IN  IF sockOk THEN continue([s1 EXCEPT !.sent = Append(@, msg)], rts)
        ELSE Caught(s1, "relay", "OSError")

\* self.request[1].sendto(recv, self.client_address); break
UDP_relay(s, rts, reply, sockOk) ==
    LET msg == [payload |-> reply, to |-> s.client_address]
        s1 == [s EXCEPT !.sendCalls = Append(@, msg)]
    IN  IF sockOk THEN Finish([s1 EXCEPT !.sent = Append(@, msg)], "Forwarded")
        ELSE Caught(s1, "relay", "OSError")

\* one iteration of UDPRequestHandler.forward_roots
UDP_forward_attempt(s, rts, sockOk) ==
    LET out == s.upstream[s.i]
        s1 == [s EXCEPT !.attempts = Append(@, Attempt(s, rts)),
                        !.upSent = Append(@, FwdArg(s))]
    IN  IF out.kind \in {"sendfail", "recvfail"} THEN continue(s1, rts)
        ELSE UDP_relay(s1, rts, recv(out.recv), sockOk)

----------------------------------------------------------------------------
(* Actions                                                                 *)

\* Step with the requester-side send log shared by all handler instances
Step_shared_sends(c, s) ==
    /\ cyc' = [d \in DOMAIN cyc |->
                 IF d = c THEN s
                 ELSE [cyc[d] EXCEPT !.sendCalls = s.sendCalls, !.sent = s.sent]]
    /\ UNCHANGED <<client_denylist, roots>>

\* Step that writes the default port back into the target list
Step_store_port(c, s) ==
    /\ cyc' = [cyc EXCEPT ![c] = s]
    /\ roots' = [j \in 1..Len(roots) |-> [roots[j] EXCEPT !.port = Port(PortOf(roots[j]))]]
    /\ UNCHANGED client_denylist

Step(c, s) ==
    /\ cyc' = [cyc EXCEPT ![c] = s]
    /\ UNCHANGED <<client_denylist, roots>>

HandleEnter(c) ==
    /\ cyc[c].pc = "start"
    /\ \E fault \in {"none", "config", "filter"} :
          Step(c, handle_enter(cyc[c], client_denylist, fault))

GetData(c) ==
    /\ cyc[c].pc = "get_data"
    /\ \E pending \in ByteStrings :
       \E sockfault \in IF cyc[c].transport = "TCP" THEN BOOLEAN ELSE {FALSE} :
          Step(c, handle_get_data(cyc[c], pending, sockfault))

Lookup(c) ==
    /\ cyc[c].pc = "lookup"
    /\ \E res \in LookupResults : Step(c, handle_lookup(cyc[c], res))

Route(c) ==
    /\ cyc[c].pc = "route"
    /\ \E env \in [1..Len(roots) -> Outcomes(cyc[c].transport)], sockOk \in BOOLEAN :
          Step(c, handle_route(cyc[c], roots, env, sockOk))

TCPForward(c) ==
    /\ cyc[c].pc = "forward"
    /\ cyc[c].transport = "TCP"
    /\ \E sockOk \in BOOLEAN : Step(c, TCP_forward_attempt(cyc[c], roots, sockOk))

UDPForward(c) ==
    /\ cyc[c].pc = "forward"
    /\ cyc[c].transport = "UDP"
    /\ \E sockOk \in BOOLEAN : Step(c, UDP_forward_attempt(cyc[c], roots, sockOk))

Cycles == DOMAIN cyc

Init ==
    /\ client_denylist \in DenyConfigs
    /\ roots \in RootConfigs
    /\ \E t \in Transports, ip \in {"IP_A", "IP_C"} :
          cyc = [c \in {1} |-> NewCycle(t, ClientAddress(ip))]

Next ==
    \/ \E c \in Cycles : HandleEnter(c)
    \/ \E c \in Cycles : GetData(c)
    \/ \E c \in Cycles : Lookup(c)
    \/ \E c \in Cycles : Route(c)
    \/ \E c \in Cycles : TCPForward(c)
    \/ \E c \in Cycles : UDPForward(c)

Spec == Init /\ [][Next]_vars

(* The access filter on its own: every deny-rule list up to MaxRules       *)

InitFilter ==
    /\ client_denylist \in SeqsUpTo(RulePool, MaxRules)
    /\ roots = <<>>
    /\ \E t \in Transports, ip \in ClientIPs :
          cyc = [c \in {1} |-> NewCycle(t, ClientAddress(ip))]

NextFilter == \E c \in Cycles : HandleEnter(c)

SpecFilter == InitFilter /\ [][NextFilter]_vars

(* Termination: one cycle whose every pending operation eventually        *)
(* returns or fails; the bytes it receives are drawn from RawSamples       *)

\* every step of cycle c
CycleNext(c) ==
    \/ HandleEnter(c)
    \/ GetData(c)
    \/ Lookup(c)
    \/ Route(c)
    \/ TCPForward(c)
    \/ UDPForward(c)

RawSamples == {<<>>, <<1>>, <<0, 1, 1>>, <<0, 1, 32>>, <<0, 2, 1>>}

NextLive ==
    /\ Next
    /\ \A c \in Cycles : cyc'[c].raw \in RawSamples

SpecLive == Init /\ [][NextLive]_vars /\ WF_vars(NextLive)

(* Two concurrent cycles: cycle 1 needs forwarding and its upstream        *)
(* attempts time out or fail, cycle 2 is answered locally                  *)

LocalAnswer == <<1, 2>>

ConcRaw == {<<1>>, <<0, 1, 1>>}

\* the slow cycle: forwarding required, no upstream target replies
Slow(s) ==
    /\ s.raw \in ConcRaw \cup {<<>>}
    /\ s.retcode \in {-1, 1}
    /\ \A j \in 1..Len(s.upstream) : s.upstream[j].kind # "reply"

\* the fast cycle: no fault, the lookup answers with LocalAnswer
Fast(s) ==
    /\ s.raw \in ConcRaw \cup {<<>>}
    /\ s.faultAt = "none"
    /\ s.retcode \in {-1, 0}
    /\ s.retcode = 0 => s.retdata = Some(LocalAnswer)

\* a step of cycle c within the scenario
ConcStep(c) == CycleNext(c) /\ Slow(cyc'[1]) /\ Fast(cyc'[2])

InitConc ==
    /\ client_denylist \in DenyConfigs
    /\ roots \in RootConfigs
    /\ \E t1 \in Transports, t2 \in Transports :
          cyc = <<NewCycle(t1, ClientAddress("IP_A")), NewCycle(t2, ClientAddress("IP_C"))>>

NextConc == \E c \in Cycles : ConcStep(c)

\* each handler runs in its own thread and every socket wait is bounded
SpecConc ==
    InitConc /\ [][NextConc]_vars /\ WF_vars(ConcStep(1)) /\ WF_vars(ConcStep(2))

----------------------------------------------------------------------------
(* Properties                                                              *)

Range(q) == {q[j] : j \in 1..Len(q)}

\* the forwarder of cycle s has been entered
Forwarding(s) == s.fwdCalls # <<>>

\* an upstream target that cannot be reached: the connect fails on TCP, the
\* datagram exchange fails on UDP
Unreachable(t, out) ==
    IF t = "TCP" THEN out.kind = "connfail" ELSE out.kind \in {"sendfail", "recvfail"}

Relayed(s, j) == [payload |-> s.upstream[j].recv, to |-> s.client_address]

\* C1: the forwarder attempts the targets in their declared order, each list
\* position at most once; with targets [T1 unreachable, T2 replying R] the
\* reply R is what is handed to the requester (and delivered unless the
\* requester's own socket fails); no target after one that replied is ever
\* attempted.
C1_OrderedEarlyStop ==
    \A c \in Cycles :
        LET s == cyc[c]
        IN  /\ \A j \in 1..Len(s.attempts) :
                  /\ s.attempts[j].idx = j
                  /\ s.attempts[j].ip = roots[j].ip
                  /\ \A k \in 1..(j - 1) : s.upstream[k].kind # "reply"
            /\ ( /\ s.pc = "done"
                 /\ Forwarding(s)
                 /\ Len(roots) >= 2
                 /\ Unreachable(s.transport, s.upstream[1])
                 /\ s.upstream[2].kind = "reply" )
               => /\ s.sendCalls = <<Relayed(s, 2)>>
                  /\ Len(s.attempts) = 2
                  /\ s.faultAt # "relay" => s.sent = <<Relayed(s, 2)>>

C1_Witness ==
    \E c \in Cycles :
        LET s == cyc[c]
        IN  /\ s.pc = "done"
            /\ s.transport = "TCP"
            /\ Forwarding(s)
            /\ Len(roots) >= 2
            /\ s.upstream[1].kind = "connfail"
            /\ s.upstream[2] = [kind |-> "reply", recv |-> <<0, 1, 1>>]
            /\ Len(s.attempts) = 2
            /\ s.sent = <<Relayed(s, 2)>>

\* C2: a failed attempt on a target (connect, send or receive failure) is
\* handled inside the forwarder, so the cycle does not end in the
\* dispatcher's exception handler because of it, and the next target of the
\* list is attempted.
C2_FailureRecovery ==
    \A c \in Cycles :
        LET s == cyc[c]
        IN  \A j \in 1..Len(s.attempts) :
                s.upstream[j].kind # "reply"
                => /\ s.faultAt # "forward"
                   /\ (s.pc = "done" /\ j < Len(roots)) => Len(s.attempts) > j

\* C3: when every upstream target fails, nothing is handed to the requester
\* in that cycle, whatever the length of the target list and the transport.
C3_AllFailNoReply ==
    \A c \in Cycles :
        LET s == cyc[c]
        IN  ( /\ Forwarding(s)
              /\ \A j \in 1..Len(roots) : s.upstream[j].kind # "reply" )
            => s.sendCalls = <<>> /\ s.sent = <<>>

C3_Witness ==
    \E c \in Cycles :
        LET s == cyc[c]
        IN  /\ s.pc = "done"
            /\ Forwarding(s)
            /\ Len(roots) >= 2
            /\ \A j \in 1..Len(roots) : s.upstream[j].kind # "reply"
            /\ Len(s.attempts) = Len(roots)
            /\ s.sendCalls = <<>>

\* the bytes a requester expects for answer b on transport t
Framed(t, b) ==
    IF t = "TCP" THEN <<Len(b) \div 256, Len(b) % 256>> \o b ELSE b

\* C4: a local answer (status 0, non-empty bytes B) makes the cycle perform
\* exactly one send to the requester, of B behind a 2-byte big-endian length
\* on TCP and of B itself to the originating address on UDP, and no
\* forwarding attempt.
C4_AnsweredPath ==
    \A c \in Cycles :
        LET s == cyc[c]
        IN  (s.pc = "done" /\ s.retcode = 0 /\ s.retdata.some /\ s.retdata.val # <<>>)
            => /\ s.sendCalls =
                     <<[payload |-> Framed(s.transport, s.retdata.val),
                        to |-> s.client_address]>>
               /\ s.faultAt = "none" => (s.sent = s.sendCalls /\ s.state = "Replied")
               /\ s.attempts = <<>>
               /\ s.fwdCalls = <<>>

C4_Witness ==
    \E c \in Cycles :
        LET s == cyc[c]
        IN  /\ s.pc = "done"
            /\ s.transport = "TCP"
            /\ s.retcode = 0
            /\ s.retdata = Some(<<1, 2>>)
            /\ s.sent = <<[payload |-> <<0, 2, 1, 2>>, to |-> s.client_address]>>

\* C5: a blocked query (status 2) ends the cycle with no send to the
\* requester, no forwarding attempt and no error.
C5_BlockedPath ==
    \A c \in Cycles :
        LET s == cyc[c]
        IN  (s.pc = "done" /\ s.retcode = 2)
            => /\ s.sendCalls = <<>>
               /\ s.sent = <<>>
               /\ s.fwdCalls = <<>>
               /\ s.attempts = <<>>
               /\ s.state = "Dropped"
               /\ s.faultAt = "none"
               /\ s.err = "none"

C5_Witness ==
    \E c \in Cycles :
        cyc[c].pc = "done" /\ cyc[c].retcode = 2 /\ cyc[c].state = "Dropped"

\* what the framer's decode yields for the bytes cycle s received
Decoded(s) ==
    IF s.transport = "TCP" THEN TCP_get_data(s.raw).val ELSE UDP_get_data(s.raw).val

\* C6: status 1 makes the cycle invoke the forwarder exactly once, with the
\* query bytes the framer decoded (the bytes the local lookup was given), and
\* no local answer is sent: whatever reaches the requester is an upstream
\* reply.
C6_ForwardPath ==
    \A c \in Cycles :
        LET s == cyc[c]
        IN  (s.pc \in {"forward", "done"} /\ s.retcode = 1)
            => /\ Len(s.fwdCalls) = 1
               /\ s.fwdCalls[1] = Decoded(s)
               /\ Len(s.lookupCalls) = 1
               /\ s.fwdCalls[1] = s.lookupCalls[1].data
               /\ s.state # "Replied"
               /\ \A m \in Range(s.sendCalls) :
                     /\ s.attempts # <<>>
                     /\ m = Relayed(s, Len(s.attempts))

C6_Witness ==
    \E c \in Cycles :
        LET s == cyc[c]
        IN  /\ s.pc = "done"
            /\ s.transport = "TCP"
            /\ s.retcode = 1
            /\ s.raw = <<0, 2, 1, 2>>
            /\ s.fwdCalls = <<<<1, 2>>>>
            /\ s.state = "Forwarded"

\* the get_data call of cycle s has read from its socket
DecodeRan(s) == "decode" \in Range(s.steps) /\ s.err # "OSError"

\* C7: for every query q, decoding the TCP frame made of the 2-byte
\* big-endian length of q followed by q succeeds and yields q.
C7_RoundTrip ==
    \A c \in Cycles :
        LET s == cyc[c]
        IN  (s.transport = "TCP" /\ DecodeRan(s))
            => \A q \in ByteStrings :
                  s.raw = Framed("TCP", q) => (s.faultAt # "framing" /\ s.data = q)

Filtered(s) == "filter" \in Range(s.steps) /\ s.state # "Escaped"

\* positions of the deny rules whose IP is the requester's
Matching(s) == {k \in 1..Len(client_denylist) : client_denylist[k][1] = s.client_address[1]}

\* C9 as stated: the result holds exactly the record types denied to the
\* requester's IP, each of them once.
C9_SetSemantics ==
    \A c \in Cycles :
        LET s == cyc[c]
        IN  Filtered(s)
            => /\ Range(s.denylist) = {client_denylist[k][2] : k \in Matching(s)}
               /\ \A j, k \in 1..Len(s.denylist) : s.denylist[j] = s.denylist[k] => j = k

\* C9 amended: the result is the list of the record types of the rules whose
\* IP equals the requester's (exact match), in rule order, one entry per
\* matching rule: empty when no rule matches, and a record type carried by
\* several matching rules appears once per such rule.
C9_DeniedTypesList ==
    \A c \in Cycles :
        LET s == cyc[c]
        IN  Filtered(s)
            => /\ Len(s.denylist) = Cardinality(Matching(s))
               /\ \A k \in Matching(s) :
                     s.denylist[Cardinality({m \in Matching(s) : m <= k})]
                        = client_denylist[k][2]

C9_Witness ==
    \E c \in Cycles :
        LET s == cyc[c]
        IN  /\ Filtered(s)
            /\ s.client_address[1] = "IP_A"
            /\ client_denylist = <<<<"IP_A", "A">>, <<"IP_B", "MX">>, <<"IP_A", "A">>>>
            /\ s.denylist = <<"A", "A">>

\* C10: a fault raised at any step of a dispatch cycle ends the cycle in
\* Errored with no reply and does not leave the handler.
C10_FaultContained ==
    \A c \in Cycles :
        LET s == cyc[c]
        IN  s.faultAt # "none" => (s.state = "Errored" /\ s.sent = <<>>)

\* C11 as stated: status 0 with absent or zero-length response bytes sends
\* nothing, forwards nothing and ends without error.
C11_EmptyAnswerSilent ==
    \A c \in Cycles :
        LET s == cyc[c]
        IN  (s.pc = "done" /\ s.retcode = 0 /\ (~s.retdata.some \/ s.retdata.val = <<>>))
            => /\ s.sendCalls = <<>>
               /\ s.fwdCalls = <<>>
               /\ s.faultAt = "none"

\* C11 amended: status 0 with absent response bytes (None) sends nothing,
\* forwards nothing and ends in Replied without error; status 0 with a
\* zero-length byte string is sent like any other answer (the two bytes 00 00
\* on TCP, an empty datagram on UDP), still with no forwarding attempt.
C11_AbsentAnswerSilent ==
    \A c \in Cycles :
        LET s == cyc[c]
        IN  (s.pc = "done" /\ s.retcode = 0)
            => /\ ~s.retdata.some
                  => /\ s.sendCalls = <<>>
                     /\ s.sent = <<>>
                     /\ s.state = "Replied"
                     /\ s.faultAt = "none"
               /\ (s.retdata.some /\ s.retdata.val = <<>>)
                  => s.sendCalls = <<[payload |-> Framed(s.transport, <<>>),
                                      to |-> s.client_address]>>
               /\ s.fwdCalls = <<>>
               /\ s.attempts = <<>>

C11_Witness ==
    \E c \in Cycles :
        LET s == cyc[c]
        IN  /\ s.pc = "done"
            /\ s.retcode = 0
            /\ s.retdata = NoData
            /\ s.state = "Replied"
            /\ s.sendCalls = <<>>

\* C13: no step of any dispatch cycle changes the deny-rule list or the
\* upstream target list, in content or in order.
C13_ConfigReadOnly ==
    [][client_denylist' = client_denylist /\ roots' = roots]_vars

\* a finished cycle that read both lists: the filter matched rules and an
\* attempt used the default port of a target that still has none
C13_Witness ==
    \E c \in Cycles :
        LET s == cyc[c]
        IN  /\ s.pc = "done"
            /\ s.denylist = <<"A", "AAAA">>
            /\ Len(client_denylist) = 3
            /\ s.attempts # <<>>
            /\ s.attempts[1].port = DefaultPort
            /\ roots[1].port = NoPort

\* position of step name n in the steps of s (0 when it did not run)
StepIndex(s, n) ==
    IF n \in Range(s.steps) THEN CHOOSE j \in 1..Len(s.steps) : s.steps[j] = n ELSE 0

\* C14 as stated: the access filter runs only after the framer's decode has
\* succeeded, and a cycle whose decode fails never runs it.
C14_FilterAfterDecode ==
    \A c \in Cycles :
        LET s == cyc[c]
        IN  /\ "filter" \in Range(s.steps)
               => (0 < StepIndex(s, "decode") /\ StepIndex(s, "decode") < StepIndex(s, "filter"))
            /\ s.faultAt = "framing" => "filter" \notin Range(s.steps)

\* C14 amended: within a cycle the steps occur in the order access filter,
\* framer decode, local lookup, routing; the filter runs first whether or not
\* the decode then succeeds, the lookup runs only after a successful decode,
\* and a cycle whose decode fails has run the filter but never the lookup.
C14_FilterDecodeLookup ==
    \A c \in Cycles :
        LET s == cyc[c]
            order == <<"filter", "decode", "lookup">>
        IN  /\ Len(s.steps) <= 3
            /\ \A j \in 1..Len(s.steps) : s.steps[j] = order[j]
            /\ "lookup" \in Range(s.steps)
               => (s.faultAt # "framing" /\ (s.transport = "TCP" => TCP_get_data(s.raw).ok))
            /\ s.faultAt = "framing"
               => (s.steps = <<"filter", "decode">> /\ s.lookupCalls = <<>>)
            /\ (s.retcode # -1 \/ s.pc \in {"route", "forward"}) => Len(s.steps) = 3

C14_Witness ==
    \E c \in Cycles :
        LET s == cyc[c]
        IN  /\ s.faultAt = "framing"
            /\ s.err = "Too big TCP packet"
            /\ s.steps = <<"filter", "decode">>
            /\ s.denylist = <<"A", "AAAA">>

\* C15: a status other than 0, 1 and 2 ends the cycle in Errored (the error
\* is logged) with no send to the requester and no forwarding attempt.
C15_UnknownStatus ==
    \A c \in Cycles :
        LET s == cyc[c]
        IN  ( /\ s.pc \in {"forward", "done"}
              /\ s.lookupCalls # <<>>
              /\ s.faultAt # "lookup"
              /\ s.retcode \notin {0, 1, 2} )
            => /\ s.pc = "done"
               /\ s.state = "Errored"
               /\ s.err = "undefined error code"
               /\ s.sendCalls = <<>>
               /\ s.sent = <<>>
               /\ s.fwdCalls = <<>>
               /\ s.attempts = <<>>

C15_Witness ==
    \E c \in Cycles :
        LET s == cyc[c]
        IN  /\ s.pc = "done"
            /\ s.retcode = 3
            /\ s.retdata = Some(<<1, 2>>)
            /\ s.state = "Errored"
            /\ s.sendCalls = <<>>

\* the direction a framing error message names
NamedDirection(e) ==
    IF e = "Too big TCP packet" THEN "oversized"
    ELSE IF e = "Too small TCP packet" THEN "undersized"
    ELSE "unspecified"

\* the buffer TCP decode validates, and the length its first two bytes declare
Buf(s) == strip(s.raw)
Declared(s) == Buf(s)[1] * 256 + Buf(s)[2]

\* the TCP decode of cycle s reached the size validation
Validated(s) == s.transport = "TCP" /\ DecodeRan(s) /\ Len(Buf(s)) >= 2

\* C16 as stated: fewer remaining bytes than declared fail with the
\* undersized-packet error, more with the oversized-packet error, each error
\* naming the direction of its case.
C16_ErrorsNameDirection ==
    \A c \in Cycles :
        LET s == cyc[c]
        IN  Validated(s)
            => /\ Len(Buf(s)) - 2 < Declared(s) => NamedDirection(s.err) = "undersized"
               /\ Len(Buf(s)) - 2 > Declared(s) => NamedDirection(s.err) = "oversized"

\* C16 amended: fewer remaining bytes than declared fail with
\* Exception("Too big TCP packet"), more with Exception("Wrong size of TCP
\* packet"); the two cases differ by message only, and the message of the
\* short-payload case is the one that says "too big".
C16_ErrorMessages ==
    \A c \in Cycles :
        LET s == cyc[c]
        IN  Validated(s)
            => /\ Len(Buf(s)) - 2 < Declared(s)
                  => (s.faultAt = "framing" /\ s.err = "Too big TCP packet")
               /\ Len(Buf(s)) - 2 > Declared(s)
                  => (s.faultAt = "framing" /\ s.err = "Wrong size of TCP packet")
               /\ Len(Buf(s)) - 2 = Declared(s) => s.faultAt # "framing"

C16_Witness ==
    \E c \in Cycles :
        LET s == cyc[c]
        IN  /\ s.transport = "TCP"
            /\ s.raw = <<0, 2, 1>>
            /\ s.faultAt = "framing"
            /\ s.err = "Too big TCP packet"

\* the first target of the list that replies, 0 when none does
FirstReply(s) ==
    LET R == {j \in 1..Len(s.upstream) : s.upstream[j].kind = "reply"}
    IN  IF R = {} THEN 0 ELSE CHOOSE j \in R : \A k \in R : j <= k

\* C17: on the forward path the requester is handed exactly the bytes
\* received from the first upstream target that replied, unmodified and
\* addressed to the requester; every query sent upstream is the decoded query
\* behind a fresh 2-byte big-endian length on TCP and the decoded query
\* itself on UDP.
C17_VerbatimRelay ==
    \A c \in Cycles :
        LET s == cyc[c]
        IN  Forwarding(s)
            => /\ \A m \in Range(s.sendCalls) :
                     /\ FirstReply(s) # 0
                     /\ m.payload = s.upstream[FirstReply(s)].recv
                     /\ m.to = s.client_address
               /\ \A j \in 1..Len(s.upSent) :
                     s.upSent[j] = Framed(s.transport, Decoded(s))
               /\ (s.pc = "done" /\ s.state = "Forwarded" /\ FirstReply(s) # 0)
                  => s.sent = <<Relayed(s, FirstReply(s))>>

C17_Witness ==
    \E c \in Cycles :
        LET s == cyc[c]
        IN  /\ s.pc = "done"
            /\ s.transport = "TCP"
            /\ s.raw = <<0, 2, 1, 2>>
            /\ s.upSent = <<<<0, 2, 1, 2>>>>
            /\ s.sent = <<[payload |-> <<0, 1, 1>>, to |-> s.client_address]>>

\* C18: on every path of a cycle, on either transport, at most one message
\* is handed to the requester: never a local answer and a relayed reply,
\* never the replies of two upstream targets.
C18_AtMostOneReply ==
    \A c \in Cycles :
        Len(cyc[c].sendCalls) <= 1 /\ Len(cyc[c].sent) <= 1

\* a relayed reply with a later target that would have replied as well
C18_Witness ==
    \E c \in Cycles :
        LET s == cyc[c]
        IN  /\ s.pc = "done"
            /\ s.transport = "UDP"
            /\ Len(s.upstream) >= 2
            /\ s.upstream[1].kind = "reply"
            /\ s.upstream[2].kind = "reply"
            /\ Len(s.sent) = 1

\* C19: when every pending operation eventually returns or fails, every
\* cycle reaches a terminal state, having attempted each position of the
\* target list at most once and in increasing order.
C19_Terminates ==
    /\ <>(\A c \in Cycles : cyc[c].pc = "done")
    /\ [](\A c \in Cycles :
            LET s == cyc[c]
            IN  /\ Len(s.attempts) <= Len(roots)
                /\ \A j, k \in 1..Len(s.attempts) :
                      j < k => s.attempts[j].idx < s.attempts[k].idx
                /\ s.pc = "done"
                   => s.state \in {"Replied", "Forwarded", "Dropped", "Errored", "Escaped"})

\* a cycle that ended after going through the whole target list
C19_Witness ==
    \E c \in Cycles :
        LET s == cyc[c]
        IN  /\ s.pc = "done"
            /\ s.state = "Forwarded"
            /\ Len(roots) >= 2
            /\ Len(s.attempts) = Len(roots)
            /\ s.sendCalls = <<>>

\* C12: with a cycle whose forwarding times out or faults and a cycle
\* answered locally running concurrently, in every interleaving a step of one
\* cycle leaves the other cycle's state untouched, the local cycle always has
\* a step of its own to take until it is done (it never waits for the other),
\* it ends in Replied having sent its own answer to its own requester, the
\* forwarding cycle ends having sent nothing, and both reach a terminal state.
C12_CycleIndependence ==
    /\ [][\A c \in Cycles :
            cyc'[c] # cyc[c] => \A d \in Cycles \ {c} : cyc'[d] = cyc[d]]_vars
    /\ [](cyc[2].pc # "done" => ENABLED ConcStep(2))
    /\ [](cyc[2].pc = "done"
            => /\ cyc[2].state = "Replied"
               /\ cyc[2].sent = <<[payload |-> Framed(cyc[2].transport, LocalAnswer),
                                   to |-> ClientAddress("IP_C")]>>)
    /\ [](cyc[1].pc = "done"
            => /\ cyc[1].state \in {"Forwarded", "Errored", "Escaped"}
               /\ cyc[1].sent = <<>>)
    /\ <>(cyc[1].pc = "done" /\ cyc[2].pc = "done")

\* the local cycle has replied while the other is still inside an upstream
\* attempt of its forwarder
C12_Witness ==
    /\ Len(cyc) = 2
    /\ cyc[2].pc = "done"
    /\ cyc[2].state = "Replied"
    /\ cyc[2].sent # <<>>
    /\ cyc[1].pc = "forward"
    /\ cyc[1].attempts = <<>>
    /\ cyc[1].upstream[1].kind = "recvfail"

====
